---- MODULE Spec2Model ----
(***************************************************************************)
(* Model of windows/winhsock.c: the HandleSocket adapter that wraps a pair *)
(* of Windows HANDLEs (plus an optional stderr handle) into a Socket.      *)
(*                                                                         *)
(* The adapter runs on one event-loop thread.  Its entry points are the    *)
(* winhandl callbacks (handle_gotdata, handle_stderr, handle_sentdata),    *)
(* the Socket vtable (sk_handle_close, sk_handle_write,                    *)
(* sk_handle_set_frozen, ...) and the toplevel callback                    *)
(* handle_socket_unfreeze.  plug_receive calls into the Plug, which may    *)
(* call the vtable again before it returns; the variable pc records that   *)
(* a plug_receive frame is on the stack and which function made it.        *)
(***************************************************************************)
EXTENDS Integers, Sequences, FiniteSets, TLC

\* Bounds of the model.
MaxDeliveries == 2      \* positive-length reads the winhandl input worker delivers
MaxChunk == 2           \* bytes in one delivery
MaxCallbacks == 2       \* toplevel callbacks pending at once
MaxCloseCalls == 2      \* sk_handle_close calls the Plug makes
MaxBacklog == 1         \* bytes winhandl holds queued for output
MaxStderr == 1          \* bytes held in stderrdata

\* limits.h, as used at the return of handle_gotdata.
INT_MAX == 2147483647

VARIABLES
    hs,             \* the HandleSocket structure
    released,       \* the release steps sk_handle_close has performed, in order
    callbacks,      \* pending toplevel callbacks (all handle_socket_unfreeze, hs)
    pc,             \* "idle", or the function whose plug_receive is on the stack
    drainLen,       \* len local of the running handle_socket_unfreeze
    eng,            \* what winhandl knows: throttling, end of input, output backlog
    plug,           \* what the Plug has been told
    delivered,      \* every byte winhandl has passed to handle_gotdata, in order
    closeCalls,     \* sk_handle_close calls made so far
    lastRet,        \* return value of the latest handle_gotdata / sk_handle_write
    fault           \* teardown under a plug_receive frame, use after free, abort

vars == <<hs, released, callbacks, pc, drainLen, eng, plug, delivered,
          closeCalls, lastRet, fault>>

Range(s) == {s[i] : i \in 1..Len(s)}

----------------------------------------------------------------------------
\* bufchain (misc.c), as the adapter uses it.

bufchain_add(ch, data) == ch \o data

bufchain_size(ch) == Len(ch)

\* The lengths bufchain_prefix may report: the head block of the chain, which
\* holds at least one and at most all of the queued bytes.
bufchain_prefix(ch) == 1..Len(ch)

bufchain_consume(ch, len) == SubSeq(ch, len + 1, Len(ch))

bufchain_clear == <<>>

----------------------------------------------------------------------------
\* The bytes of the d-th delivery: each byte is tagged with its delivery and
\* its place in it, so that loss, duplication and reordering are all visible.
Chunk(d, len) == [i \in 1..len |-> <<d, i>>]

Freed == <<"sfree", "hs">> \in Range(released)

Running == ~fault.aborted

----------------------------------------------------------------------------
\* The Plug (network.h): what each call tells it.  closings counts the
\* plug_closing calls; afterClosing records a call made after one; last is
\* the calls made by the entry point that called the Plug most recently, in
\* order (PlugEntry starts it afresh).

PlugEntry(p) == [p EXCEPT !.last = <<>>]

plug_receive(p, data) ==
    [p EXCEPT !.received = @ \o data,
              !.afterClosing = @ \/ p.closings > 0,
              !.last = Append(@, <<"receive", Len(data)>>)]

plug_closing(p, error_msg) ==
    [p EXCEPT !.closings = @ + 1,
              !.afterClosing = @ \/ p.closings > 0,
              !.last = Append(@, <<"closing", error_msg>>)]

plug_sent(p, bufsize) ==
    [p EXCEPT !.afterClosing = @ \/ p.closings > 0,
              !.last = Append(@, <<"sent", bufsize>>)]

----------------------------------------------------------------------------
\* make_handle_socket: the structure as constructed, and the workers
\* registered with winhandl.  stderr_H = "NULL" stands for no stderr handle.

make_handle_socket(send_H, recv_H, stderr_H) ==
    [send_H |-> send_H, recv_H |-> recv_H, stderr_H |-> stderr_H,
     frozen |-> "UNFROZEN", inputdata |-> <<>>, stderrdata |-> 0,
     defer_close |-> FALSE, deferred_close |-> FALSE, error |-> "NULL"]

registered_workers(stderr_H) ==
    {"recv_h", "send_h"} \cup (IF stderr_H # "NULL" THEN {"stderr_h"} ELSE {})

Init ==
    /\ \E recv_H \in {"A", "B"}, stderr_H \in {"NULL", "C"} :
          /\ hs = make_handle_socket("A", recv_H, stderr_H)
          /\ eng = [workers |-> registered_workers(stderr_H),
                    open |-> {"A", recv_H, stderr_H} \ {"NULL"},
                    throttled |-> FALSE, recv_done |-> FALSE, send_done |-> FALSE,
                    reads |-> 0, maxReturns |-> 0, unthrottles |-> 0,
                    backlog |-> 0, written |-> -1]
    /\ released = <<>>
    /\ callbacks = 0
    /\ pc = "idle"
    /\ drainLen = 0
    /\ plug = [received |-> <<>>, closings |-> 0, afterClosing |-> FALSE,
               last |-> <<>>]
    /\ delivered = <<>>
    /\ closeCalls = 0
    /\ lastRet = 0
    /\ fault = [inReceive |-> FALSE, uaf |-> FALSE, aborted |-> FALSE]

----------------------------------------------------------------------------
\* sk_handle_close.

\* close_steps with the chains cleared before the workers are released.
close_steps_queues_first(h) ==
    <<<<"bufchain_clear", "inputdata">>, <<"bufchain_clear", "stderrdata">>,
      <<"handle_free", "send_h">>, <<"handle_free", "recv_h">>,
      <<"CloseHandle", h.send_H>>>>
    \o (IF h.recv_H # h.send_H THEN <<<<"CloseHandle", h.recv_H>>>> ELSE <<>>)
    \o <<<<"sfree", "hs">>>>

\* The release steps of a teardown, in the order the code performs them.
close_steps(h) ==
    <<<<"handle_free", "send_h">>, <<"handle_free", "recv_h">>,
      <<"CloseHandle", h.send_H>>>>
    \o (IF h.recv_H # h.send_H THEN <<<<"CloseHandle", h.recv_H>>>> ELSE <<>>)
    \o <<<<"bufchain_clear", "inputdata">>, <<"bufchain_clear", "stderrdata">>,
         <<"sfree", "hs">>>>

\* The effect of release steps on the structure and on winhandl.
HsReleased(h, steps) ==
    [h EXCEPT !.inputdata = IF <<"bufchain_clear", "inputdata">> \in Range(steps)
                            THEN bufchain_clear ELSE @,
              !.stderrdata = IF <<"bufchain_clear", "stderrdata">> \in Range(steps)
                             THEN 0 ELSE @]

EngReleased(e, steps) ==
    [e EXCEPT !.workers = {w \in @ : <<"handle_free", w>> \notin Range(steps)},
              !.open = {H \in @ : <<"CloseHandle", H>> \notin Range(steps)}]

\* sk_handle_close on a live structure: the structure, winhandl and the
\* release log after the call; tore says that the teardown ran.
sk_handle_close(h, e, rel) ==
    IF h.defer_close
    THEN [hs |-> [h EXCEPT !.deferred_close = TRUE], eng |-> e,
          released |-> rel, tore |-> FALSE]
    ELSE [hs |-> HsReleased(h, close_steps(h)),
          eng |-> EngReleased(e, close_steps(h)),
          released |-> rel \o close_steps(h), tore |-> TRUE]

\* The Plug calls sk_close, from the event loop or from inside plug_receive.
\* It closes once, or again from inside the plug_receive in which it closed.
\* A call on a structure that sfree has released reads defer_close from freed
\* memory: it finds it set and returns, or finds it clear and tears down again.
Close ==
    /\ Running
    /\ closeCalls < MaxCloseCalls
    /\ closeCalls > 0 => pc # "idle"
    /\ closeCalls' = closeCalls + 1
    /\ IF Freed
       THEN /\ \E sees_defer_close \in BOOLEAN :
                 released' = IF sees_defer_close THEN released
                             ELSE released \o close_steps(hs)
            /\ fault' = [fault EXCEPT !.uaf = TRUE]
            /\ UNCHANGED <<hs, eng>>
       ELSE LET r == sk_handle_close(hs, eng, released) IN
            /\ hs' = r.hs
            /\ eng' = r.eng
            /\ released' = r.released
            /\ fault' = [fault EXCEPT !.inReceive = @ \/ (r.tore /\ pc # "idle")]
    /\ UNCHANGED <<callbacks, pc, drainLen, plug, delivered, lastRet>>

\* What the Plug does to the socket inside plug_closing or plug_sent: nothing,
\* or sk_close (no plug_receive frame is on the stack there).
PlugReacts(closes, h, e, rel) ==
    IF closes THEN sk_handle_close(h, e, rel)
    ELSE [hs |-> h, eng |-> e, released |-> rel, tore |-> FALSE]

----------------------------------------------------------------------------
\* handle_gotdata: the read callback of the winhandl input worker.  winhandl
\* calls it from the event loop, for a registered worker that has not ended
\* and that it has not throttled.

gotdata_asserts(frozen) == frozen # "FROZEN" /\ frozen # "THAWING"

\* handle_gotdata_closing reporting an error for end of file too.
handle_gotdata_closing_always_error(len, closes) ==
    /\ plug' = plug_closing(PlugEntry(plug), "Read error from handle")
    /\ LET r == PlugReacts(closes, hs, [eng EXCEPT !.recv_done = TRUE], released) IN
         /\ hs' = r.hs
         /\ eng' = r.eng
         /\ released' = r.released
    /\ closeCalls' = closeCalls + (IF closes THEN 1 ELSE 0)
    /\ lastRet' = 0
    /\ UNCHANGED <<callbacks, pc, drainLen, delivered, fault>>

\* len <= 0: a read error, or end of file.
handle_gotdata_closing(len, closes) ==
    /\ plug' = plug_closing(PlugEntry(plug),
                             IF len < 0 THEN "Read error from handle" ELSE "NULL")
    /\ LET r == PlugReacts(closes, hs, [eng EXCEPT !.recv_done = TRUE], released) IN
         /\ hs' = r.hs
         /\ eng' = r.eng
         /\ released' = r.released
    /\ closeCalls' = closeCalls + (IF closes THEN 1 ELSE 0)
    /\ lastRet' = 0
    /\ UNCHANGED <<callbacks, pc, drainLen, delivered, fault>>

\* winhandl throttles the worker on a return value of INT_MAX (its backlog
\* limit is far below it) and goes on reading on a return value of 0.
engine_throttles(ret) == ret = INT_MAX

EngAfterRead(e, ret) ==
    [e EXCEPT !.reads = @ + 1,
              !.throttled = engine_throttles(ret),
              !.maxReturns = @ + (IF ret = INT_MAX THEN 1 ELSE 0)]

\* handle_gotdata_buffer returning 0, as for data passed straight on.
handle_gotdata_buffer_returns_zero(data) ==
    /\ hs' = [hs EXCEPT !.inputdata = bufchain_add(@, data), !.frozen = "FROZEN"]
    /\ lastRet' = 0
    /\ eng' = EngAfterRead(eng, 0)
    /\ UNCHANGED <<pc, plug>>

\* len > 0 while FREEZING: buffer the data and return INT_MAX.
handle_gotdata_buffer(data) ==
    /\ hs' = [hs EXCEPT !.inputdata = bufchain_add(@, data), !.frozen = "FROZEN"]
    /\ lastRet' = INT_MAX
    /\ eng' = EngAfterRead(eng, INT_MAX)
    /\ UNCHANGED <<pc, plug>>

\* len > 0 otherwise: plug_receive is called, and may call back.
handle_gotdata_deliver(data) ==
    /\ plug' = plug_receive(PlugEntry(plug), data)
    /\ pc' = "handle_gotdata"
    /\ eng' = [eng EXCEPT !.reads = @ + 1]
    /\ UNCHANGED <<hs, lastRet>>

handle_gotdata_data(len) ==
    LET data == Chunk(eng.reads + 1, len) IN
    /\ eng.reads < MaxDeliveries
    /\ delivered' = delivered \o data
    /\ IF ~gotdata_asserts(hs.frozen)
       THEN /\ fault' = [fault EXCEPT !.aborted = TRUE]
            /\ eng' = [eng EXCEPT !.reads = @ + 1]
            /\ UNCHANGED <<hs, pc, plug, lastRet>>
       ELSE /\ IF hs.frozen = "FREEZING"
               THEN handle_gotdata_buffer(data)
               ELSE handle_gotdata_deliver(data)
            /\ UNCHANGED fault
    /\ UNCHANGED <<released, callbacks, drainLen, closeCalls>>

handle_gotdata(len, closes) ==
    /\ Running
    /\ pc = "idle"
    /\ "recv_h" \in eng.workers
    /\ ~eng.recv_done
    /\ ~eng.throttled
    /\ IF len <= 0
       THEN (closes => closeCalls = 0) /\ handle_gotdata_closing(len, closes)
       ELSE ~closes /\ handle_gotdata_data(len)

\* plug_receive returns to handle_gotdata, which returns 0.
handle_gotdata_return ==
    /\ Running
    /\ pc = "handle_gotdata"
    /\ pc' = "idle"
    /\ lastRet' = 0
    /\ eng' = [eng EXCEPT !.throttled = engine_throttles(0)]
    /\ UNCHANGED <<hs, released, callbacks, drainLen, plug, delivered,
                   closeCalls, fault>>

----------------------------------------------------------------------------
\* handle_stderr and log_proxy_stderr: stderr data goes to the log and never
\* to the Plug's data path.  log_proxy_stderr appends the data to stderrdata
\* and logs the complete lines, leaving any part of a line in the chain.

log_proxy_stderr(size, len) == {n \in 0..MaxStderr : n <= size + len}

handle_stderr(len) ==
    /\ Running
    /\ pc = "idle"
    /\ "stderr_h" \in eng.workers
    /\ IF len > 0 /\ Freed
       THEN /\ fault' = [fault EXCEPT !.uaf = TRUE]
            /\ UNCHANGED hs
       ELSE /\ \E size \in (IF len > 0 THEN log_proxy_stderr(hs.stderrdata, len)
                            ELSE {hs.stderrdata}) :
                 hs' = [hs EXCEPT !.stderrdata = size]
            /\ UNCHANGED fault
    /\ UNCHANGED <<released, callbacks, pc, drainLen, eng, plug, delivered,
                   closeCalls, lastRet>>

----------------------------------------------------------------------------
\* handle_sentdata: the callback of the winhandl output worker.  new_backlog
\* is what is left queued after a write has completed, or an error code
\* negated; after an error the worker writes no more.

\* handle_sentdata without the return that ends the error case.
handle_sentdata_no_return(new_backlog, closes) ==
    /\ Running
    /\ pc = "idle"
    /\ "send_h" \in eng.workers
    /\ ~eng.send_done
    /\ new_backlog <= eng.backlog
    /\ closes => closeCalls = 0
    /\ plug' = IF new_backlog < 0
               THEN plug_sent(plug_closing(PlugEntry(plug), "win_strerror"),
                              new_backlog)
               ELSE plug_sent(PlugEntry(plug), new_backlog)
    /\ LET e1 == IF new_backlog < 0 THEN [eng EXCEPT !.send_done = TRUE]
                 ELSE [eng EXCEPT !.backlog = new_backlog]
           r == PlugReacts(closes, hs, e1, released) IN
         /\ hs' = r.hs
         /\ eng' = r.eng
         /\ released' = r.released
    /\ closeCalls' = closeCalls + (IF closes THEN 1 ELSE 0)
    /\ UNCHANGED <<callbacks, pc, drainLen, delivered, lastRet, fault>>

handle_sentdata(new_backlog, closes) ==
    /\ Running
    /\ pc = "idle"
    /\ "send_h" \in eng.workers
    /\ ~eng.send_done
    /\ new_backlog <= eng.backlog
    /\ closes => closeCalls = 0
    /\ plug' = IF new_backlog < 0
               THEN plug_closing(PlugEntry(plug), "win_strerror")
               ELSE plug_sent(PlugEntry(plug), new_backlog)
    /\ LET e1 == IF new_backlog < 0 THEN [eng EXCEPT !.send_done = TRUE]
                 ELSE [eng EXCEPT !.backlog = new_backlog]
           r == PlugReacts(closes, hs, e1, released) IN
         /\ hs' = r.hs
         /\ eng' = r.eng
         /\ released' = r.released
    /\ closeCalls' = closeCalls + (IF closes THEN 1 ELSE 0)
    /\ UNCHANGED <<callbacks, pc, drainLen, delivered, lastRet, fault>>

\* sk_handle_write: handle_write queues the data on the output worker and
\* returns the size of its queue.
handle_write(backlog, len) == backlog + len

\* sk_handle_write returning the number of bytes passed in, not the backlog.
sk_handle_write_returns_len(len) ==
    /\ Running
    /\ ~Freed
    /\ closeCalls = 0
    /\ handle_write(eng.backlog, len) <= MaxBacklog
    /\ eng' = [eng EXCEPT !.backlog = handle_write(@, len), !.written = len]
    /\ lastRet' = len
    /\ UNCHANGED <<hs, released, callbacks, pc, drainLen, plug, delivered,
                   closeCalls, fault>>

sk_handle_write(len) ==
    /\ Running
    /\ ~Freed
    /\ closeCalls = 0
    /\ handle_write(eng.backlog, len) <= MaxBacklog
    /\ eng' = [eng EXCEPT !.backlog = handle_write(@, len), !.written = len]
    /\ lastRet' = handle_write(eng.backlog, len)
    /\ UNCHANGED <<hs, released, callbacks, pc, drainLen, plug, delivered,
                   closeCalls, fault>>

\* sk_handle_socket_error returns hs->error, which make_handle_socket sets to
\* NULL and no other function assigns.
sk_handle_socket_error(h) == h.error

----------------------------------------------------------------------------
\* sk_handle_set_frozen.

\* set_frozen_switch with a freeze during THAWING treated as the normal case.
set_frozen_switch_refreeze(frozen, is_frozen) ==
    IF is_frozen
    THEN CASE frozen \in {"FREEZING", "FROZEN"} ->
                [frozen |-> frozen, queue |-> FALSE, asserts_empty |-> FALSE]
           [] frozen \in {"THAWING", "UNFROZEN"} ->
                [frozen |-> "FREEZING", queue |-> FALSE, asserts_empty |-> FALSE]
    ELSE CASE frozen \in {"UNFROZEN", "THAWING"} ->
                [frozen |-> frozen, queue |-> FALSE, asserts_empty |-> FALSE]
           [] frozen = "FREEZING" ->
                [frozen |-> "UNFROZEN", queue |-> FALSE, asserts_empty |-> TRUE]
           [] frozen = "FROZEN" ->
                [frozen |-> "THAWING", queue |-> TRUE, asserts_empty |-> FALSE]

\* set_frozen_switch with an unfreeze during THAWING queueing the callback again.
set_frozen_switch_requeue(frozen, is_frozen) ==
    IF is_frozen
    THEN CASE frozen \in {"FREEZING", "FROZEN"} ->
                [frozen |-> frozen, queue |-> FALSE, asserts_empty |-> FALSE]
           [] frozen = "THAWING" ->
                [frozen |-> "FROZEN", queue |-> FALSE, asserts_empty |-> FALSE]
           [] frozen = "UNFROZEN" ->
                [frozen |-> "FREEZING", queue |-> FALSE, asserts_empty |-> FALSE]
    ELSE CASE frozen = "UNFROZEN" ->
                [frozen |-> frozen, queue |-> FALSE, asserts_empty |-> FALSE]
           [] frozen = "FREEZING" ->
                [frozen |-> "UNFROZEN", queue |-> FALSE, asserts_empty |-> TRUE]
           [] frozen \in {"FROZEN", "THAWING"} ->
                [frozen |-> "THAWING", queue |-> TRUE, asserts_empty |-> FALSE]

\* set_frozen_switch with an unfreeze during FREEZING handled as in FROZEN.
set_frozen_switch_thaw_freezing(frozen, is_frozen) ==
    IF is_frozen
    THEN CASE frozen \in {"FREEZING", "FROZEN"} ->
                [frozen |-> frozen, queue |-> FALSE, asserts_empty |-> FALSE]
           [] frozen = "THAWING" ->
                [frozen |-> "FROZEN", queue |-> FALSE, asserts_empty |-> FALSE]
           [] frozen = "UNFROZEN" ->
                [frozen |-> "FREEZING", queue |-> FALSE, asserts_empty |-> FALSE]
    ELSE CASE frozen \in {"UNFROZEN", "THAWING"} ->
                [frozen |-> frozen, queue |-> FALSE, asserts_empty |-> FALSE]
           [] frozen \in {"FREEZING", "FROZEN"} ->
                [frozen |-> "THAWING", queue |-> TRUE, asserts_empty |-> FALSE]

\* The switch on hs->frozen: the next state, whether handle_socket_unfreeze
\* is queued, and whether the case asserts that inputdata is empty.
set_frozen_switch(frozen, is_frozen) ==
    IF is_frozen
    THEN CASE frozen \in {"FREEZING", "FROZEN"} ->
                [frozen |-> frozen, queue |-> FALSE, asserts_empty |-> FALSE]
           [] frozen = "THAWING" ->
                [frozen |-> "FROZEN", queue |-> FALSE, asserts_empty |-> FALSE]
           [] frozen = "UNFROZEN" ->
                [frozen |-> "FREEZING", queue |-> FALSE, asserts_empty |-> FALSE]
    ELSE CASE frozen \in {"UNFROZEN", "THAWING"} ->
                [frozen |-> frozen, queue |-> FALSE, asserts_empty |-> FALSE]
           [] frozen = "FREEZING" ->
                [frozen |-> "UNFROZEN", queue |-> FALSE, asserts_empty |-> TRUE]
           [] frozen = "FROZEN" ->
                [frozen |-> "THAWING", queue |-> TRUE, asserts_empty |-> FALSE]

\* Room on the callback queue, keeping the slot a running
\* handle_socket_unfreeze may need to queue itself again.
CanSchedule ==
    callbacks + (IF pc = "handle_socket_unfreeze" THEN 1 ELSE 0) < MaxCallbacks

\* The Plug's owner calls sk_set_frozen, from the event loop or from inside
\* plug_receive, on a socket it has not closed.
sk_handle_set_frozen(is_frozen) ==
    /\ Running
    /\ ~Freed
    /\ closeCalls = 0
    /\ LET sw == set_frozen_switch(hs.frozen, is_frozen) IN
         /\ sw.queue => CanSchedule
         /\ IF sw.asserts_empty /\ bufchain_size(hs.inputdata) # 0
            THEN /\ fault' = [fault EXCEPT !.aborted = TRUE]
                 /\ UNCHANGED <<hs, callbacks>>
            ELSE /\ hs' = [hs EXCEPT !.frozen = sw.frozen]
                 /\ callbacks' = callbacks + (IF sw.queue THEN 1 ELSE 0)
                 /\ UNCHANGED fault
    /\ UNCHANGED <<released, pc, drainLen, eng, plug, delivered, closeCalls,
                   lastRet>>

----------------------------------------------------------------------------
\* handle_socket_unfreeze: the toplevel callback that drains inputdata.

handle_unthrottle(e) ==
    [e EXCEPT !.throttled = FALSE, !.unthrottles = @ + 1]

\* The callback runs, up to its call of plug_receive.  Run on a structure
\* that sfree has released, it reads hs->frozen from freed memory: it finds a
\* value other than THAWING and returns, or finds THAWING and goes on to a
\* chain that bufchain_clear has emptied, where assert(len > 0) aborts.
handle_socket_unfreeze ==
    /\ Running
    /\ pc = "idle"
    /\ callbacks > 0
    /\ callbacks' = callbacks - 1
    /\ IF Freed
       THEN /\ \E sees_thawing \in BOOLEAN :
                 fault' = [fault EXCEPT !.uaf = TRUE, !.aborted = sees_thawing]
            /\ UNCHANGED <<hs, pc, drainLen, plug>>
       ELSE IF hs.frozen # "THAWING"
       THEN UNCHANGED <<hs, pc, drainLen, plug, fault>>
       ELSE IF bufchain_size(hs.inputdata) = 0
       THEN /\ fault' = [fault EXCEPT !.aborted = TRUE]
            /\ UNCHANGED <<hs, pc, drainLen, plug>>
       ELSE /\ \E len \in bufchain_prefix(hs.inputdata) :
                 /\ drainLen' = len
                 /\ plug' = plug_receive(PlugEntry(plug),
                                          SubSeq(hs.inputdata, 1, len))
            /\ hs' = [hs EXCEPT !.defer_close = TRUE]
            /\ pc' = "handle_socket_unfreeze"
            /\ UNCHANGED fault
    /\ UNCHANGED <<released, eng, delivered, closeCalls, lastRet>>

\* unfreeze_finish that does not queue the callback again.
unfreeze_finish_no_requeue(h) ==
    IF bufchain_size(h.inputdata) > 0
    THEN [frozen |-> h.frozen, queue |-> FALSE, unthrottle |-> FALSE]
    ELSE [frozen |-> "UNFROZEN", queue |-> FALSE, unthrottle |-> TRUE]

\* unfreeze_finish without the test of bufchain_size.
unfreeze_finish_early(h) ==
    [frozen |-> "UNFROZEN", queue |-> FALSE, unthrottle |-> TRUE]

\* After the deferred-close test: stay in THAWING and queue the callback
\* again, or go to UNFROZEN and unthrottle.
unfreeze_finish(h) ==
    IF bufchain_size(h.inputdata) > 0
    THEN [frozen |-> h.frozen, queue |-> TRUE, unthrottle |-> FALSE]
    ELSE [frozen |-> "UNFROZEN", queue |-> FALSE, unthrottle |-> TRUE]

\* unfreeze_consume that empties the chain whatever the length delivered.
unfreeze_consume_all(h, len) ==
    [h EXCEPT !.inputdata = bufchain_consume(@, bufchain_size(@)),
              !.defer_close = FALSE]

\* After plug_receive returns: the delivered prefix leaves the chain and the
\* deferral of sk_handle_close ends.
unfreeze_consume(h, len) ==
    [h EXCEPT !.inputdata = bufchain_consume(@, len), !.defer_close = FALSE]

\* plug_receive returns to handle_socket_unfreeze, which runs to its end.
handle_socket_unfreeze_return ==
    /\ Running
    /\ pc = "handle_socket_unfreeze"
    /\ pc' = "idle"
    /\ drainLen' = 0
    /\ LET h1 == unfreeze_consume(hs, drainLen) IN
         IF h1.deferred_close
         THEN LET r == sk_handle_close(h1, eng, released) IN
              /\ hs' = r.hs
              /\ eng' = r.eng
              /\ released' = r.released
              /\ UNCHANGED callbacks
         ELSE LET f == unfreeze_finish(h1) IN
              /\ hs' = [h1 EXCEPT !.frozen = f.frozen]
              /\ callbacks' = callbacks + (IF f.queue THEN 1 ELSE 0)
              /\ eng' = IF f.unthrottle THEN handle_unthrottle(eng) ELSE eng
              /\ UNCHANGED released
    /\ UNCHANGED <<plug, delivered, closeCalls, lastRet, fault>>

----------------------------------------------------------------------------
\* The freeze/thaw machine, the read path, the sent callback and close.
Next ==
    \/ \E len \in -1..MaxChunk, closes \in BOOLEAN : handle_gotdata(len, closes)
    \/ handle_gotdata_return
    \/ \E len \in 0..1 : handle_stderr(len)
    \/ \E new_backlog \in {-5, 0}, closes \in BOOLEAN :
         handle_sentdata(new_backlog, closes)
    \/ \E is_frozen \in BOOLEAN : sk_handle_set_frozen(is_frozen)
    \/ Close
    \/ handle_socket_unfreeze
    \/ handle_socket_unfreeze_return

Spec == Init /\ [][Next]_vars

\* The write path: sk_handle_write and the sent callback, with freezing,
\* stderr data and close around them.
NextWrite ==
    \/ \E len \in 0..1 : sk_handle_write(len)
    \/ \E new_backlog \in {-5} \cup (0..MaxBacklog), closes \in BOOLEAN :
         handle_sentdata(new_backlog, closes)
    \/ \E len \in 0..1 : handle_stderr(len)
    \/ \E is_frozen \in BOOLEAN : sk_handle_set_frozen(is_frozen)
    \/ Close

SpecWrite == Init /\ [][NextWrite]_vars

\* The scenario of one freeze, one delivery while FREEZING and one unfreeze:
\* data may arrive before the freeze, nothing is frozen or closed after it,
\* and winhandl delivers nothing more once the data has been buffered.
NextThaw ==
    \/ /\ hs.frozen = "UNFROZEN"
       /\ eng.maxReturns = 0
       /\ pc = "idle"
       /\ sk_handle_set_frozen(TRUE)
    \/ /\ eng.maxReturns = 0
       /\ eng.reads < MaxDeliveries - 1 \/ hs.frozen = "FREEZING"
       /\ \E len \in 1..MaxChunk : handle_gotdata(len, FALSE)
    \/ handle_gotdata_return
    \/ /\ hs.frozen = "FROZEN"
       /\ sk_handle_set_frozen(FALSE)
    \/ handle_socket_unfreeze
    \/ handle_socket_unfreeze_return
    \/ \E len \in 0..1 : handle_stderr(len)

\* The event loop runs every queued toplevel callback, and plug_receive
\* returns.
SpecThaw ==
    /\ Init
    /\ [][NextThaw]_vars
    /\ WF_vars(handle_socket_unfreeze)
    /\ WF_vars(handle_socket_unfreeze_return)

----------------------------------------------------------------------------
\* Properties.

\* The bytes of inputdata that plug_receive has not been given: while
\* handle_socket_unfreeze is inside plug_receive, the prefix it is delivering
\* is still in the chain.
Undelivered ==
    IF pc = "handle_socket_unfreeze"
    THEN bufchain_consume(hs.inputdata, drainLen)
    ELSE hs.inputdata

\* The number of times the teardown of sk_handle_close has run.
Teardowns == Cardinality({i \in 1..Len(released) : released[i] = <<"sfree", "hs">>})

\* C1: as long as sk_close has not been called, the bytes given to
\* plug_receive followed by the bytes still buffered are exactly the bytes
\* winhandl has delivered, in order.
C1_BytesInOrder ==
    closeCalls = 0 => plug.received \o Undelivered = delivered

\* C1 witness: data was delivered directly and data was buffered and drained,
\* and all of it has reached the Plug.
C1_Witness ==
    /\ closeCalls = 0
    /\ pc = "idle"
    /\ eng.unthrottles >= 1
    /\ eng.reads > eng.maxReturns
    /\ hs.inputdata = <<>>
    /\ Len(plug.received) >= 3

\* C2: the teardown never runs while a plug_receive made by the adapter is on
\* the stack, and it runs at most once.
C2_CloseAfterReturn ==
    ~fault.inReceive /\ Teardowns <= 1

\* C3: once the structure has been released, no handle_socket_unfreeze
\* callback is pending for it.
C3_NoCallbackAfterFree ==
    Freed => callbacks = 0

\* C4: at most one handle_socket_unfreeze callback is pending, and in THAWING
\* exactly one is running or pending.
C4_SingleDrain ==
    /\ callbacks <= 1
    /\ (hs.frozen = "THAWING" /\ ~Freed) =>
         callbacks + (IF pc = "handle_socket_unfreeze" THEN 1 ELSE 0) = 1

\* C5: after a plug_closing call the adapter makes no further plug_receive,
\* plug_sent or plug_closing call.
C5_SilentAfterClosing ==
    ~plug.afterClosing

\* C6: from FROZEN, until sk_set_frozen(FALSE) moves to THAWING (and while
\* sk_close is not called), the state stays FROZEN, no undelivered byte
\* leaves inputdata, plug_receive is not called, winhandl is not unthrottled
\* and no callback is queued.
C6_FrozenHolds ==
    [][(hs.frozen = "FROZEN" /\ hs'.frozen # "THAWING" /\ closeCalls' = 0) =>
          /\ hs'.frozen = "FROZEN"
          /\ Undelivered' = Undelivered
          /\ plug'.received = plug.received
          /\ eng'.unthrottles = eng.unthrottles
          /\ callbacks' <= callbacks]_vars

\* The end of the scenario: thawed, nothing buffered, every delivered byte
\* received, winhandl unthrottled once.
C7_Done ==
    /\ pc = "idle"
    /\ hs.frozen = "UNFROZEN"
    /\ hs.inputdata = <<>>
    /\ plug.received = delivered
    /\ eng.unthrottles = 1

\* C7: in the scenario of one freeze, one delivery and one unfreeze, THAWING
\* leads to UNFROZEN with inputdata empty and every delivered byte received,
\* and handle_unthrottle is called once: never twice, and once by then.
C7_ThawCompletes ==
    /\ [](eng.unthrottles <= 1)
    /\ [](eng.maxReturns = 1 /\ hs.frozen = "UNFROZEN" => C7_Done)
    /\ (hs.frozen = "THAWING") ~> C7_Done

\* C7 witness: the thaw has completed, after one delivery made directly and
\* one buffered and drained, three bytes or more in all.
C7_Witness ==
    /\ C7_Done
    /\ eng.reads = 2
    /\ Len(delivered) >= 3

\* C8: between entry points inputdata is empty in UNFROZEN and FREEZING, and
\* it is empty in FREEZING at any point, so the assertion of the
\* FREEZING -> UNFROZEN case holds wherever sk_set_frozen is called.
C8_EmptyUnlessFrozen ==
    /\ (pc = "idle" /\ hs.frozen \in {"UNFROZEN", "FREEZING"}) => hs.inputdata = <<>>
    /\ hs.frozen = "FREEZING" => hs.inputdata = <<>>

\* C8 witness: frozen again after a complete thaw, with nothing buffered.
C8_Witness ==
    /\ pc = "idle"
    /\ ~Freed
    /\ hs.frozen = "FREEZING"
    /\ eng.unthrottles >= 1
    /\ hs.inputdata = <<>>

\* C9: the bytes in inputdata all come from one delivery.
C9_OneDeliveryBuffered ==
    \A i, j \in 1..Len(hs.inputdata) : hs.inputdata[i][1] = hs.inputdata[j][1]

\* C9 witness: the second delivery is buffered whole, after the first one
\* was buffered and drained.
C9_Witness ==
    /\ hs.frozen = "FROZEN"
    /\ eng.maxReturns = 2
    /\ eng.unthrottles = 1
    /\ Len(hs.inputdata) = 2

\* C10: after the teardown no worker is registered, no handle is open and
\* both chains are empty.
C10_AllReleased ==
    Freed => /\ eng.workers = {}
             /\ eng.open = {}
             /\ hs.inputdata = <<>>
             /\ hs.stderrdata = 0

\* The steps of the teardown that contains step i of the release log: every
\* teardown performs Len(close_steps(hs)) steps.
SameTeardown(i, j) ==
    (i - 1) \div Len(close_steps(hs)) = (j - 1) \div Len(close_steps(hs))

\* The place of a release step in the order the spec gives: receive worker,
\* send worker, handles, chains, structure.
RankReadFirst(step) ==
    CASE step = <<"handle_free", "recv_h">> -> 1
      [] step = <<"handle_free", "send_h">> -> 2
      [] step[1] = "CloseHandle" -> 3
      [] step[1] = "bufchain_clear" -> 4
      [] step[1] = "sfree" -> 5

\* The place of a release step in the order with the send worker first.
RankSendFirst(step) ==
    CASE step = <<"handle_free", "send_h">> -> 1
      [] step = <<"handle_free", "recv_h">> -> 2
      [] step[1] = "CloseHandle" -> 3
      [] step[1] = "bufchain_clear" -> 4
      [] step[1] = "sfree" -> 5

\* C11 as stated: within a teardown the receive worker is released first,
\* then the send worker, then the handles, then the chains are cleared, then
\* the structure is released.
C11_ReadWorkerFirst ==
    \A i, j \in 1..Len(released) :
        (i < j /\ SameTeardown(i, j)) =>
            RankReadFirst(released[i]) <= RankReadFirst(released[j])

\* C11 amended: within a teardown the send worker is released first, then
\* the receive worker, then the handles, then the chains are cleared, then
\* the structure is released.
C11_SendWorkerFirst ==
    \A i, j \in 1..Len(released) :
        (i < j /\ SameTeardown(i, j)) =>
            RankSendFirst(released[i]) <= RankSendFirst(released[j])

\* C11 witness: a teardown has run on a socket with two distinct handles.
C11_Witness ==
    /\ Freed
    /\ hs.recv_H # hs.send_H
    /\ Len(released) = Len(close_steps(hs))

\* C12: a step of handle_sentdata with a negative value makes exactly one
\* plug_closing call, with an error message, and no plug_sent call; with a
\* value v >= 0 it makes exactly one plug_sent(v) call and no plug_closing
\* call.  Either way nothing is delivered, and unless the Plug closes the
\* socket from inside the call the structure (freeze state and inputdata
\* included) is as before.
C12_SentOrClosing ==
    [][\A v \in {-5} \cup (0..MaxBacklog), closes \in BOOLEAN :
          handle_sentdata(v, closes) =>
            /\ plug'.last = IF v < 0 THEN <<<<"closing", "win_strerror">>>>
                            ELSE <<<<"sent", v>>>>
            /\ plug'.closings = plug.closings + (IF v < 0 THEN 1 ELSE 0)
            /\ plug'.received = plug.received
            /\ hs'.frozen = hs.frozen
            /\ ~closes => hs' = hs]_vars

\* C12 witness: a write error has been reported while data was buffered.
C12_Witness ==
    /\ plug.last = <<<<"closing", "win_strerror">>>>
    /\ hs.frozen = "FROZEN"
    /\ hs.inputdata # <<>>

\* C13: sk_socket_error returns NULL as long as no plug_closing has been
\* made, and an error description once the latest notification to the Plug
\* is a plug_closing with an error message (a read or a write failure).
C13_ErrorRecorded ==
    /\ plug.closings = 0 => sk_handle_socket_error(hs) = "NULL"
    /\ (/\ ~Freed
        /\ plug.last # <<>>
        /\ plug.last[1][1] = "closing"
        /\ plug.last[1][2] # "NULL") => sk_handle_socket_error(hs) # "NULL"

\* C14 as stated: sk_write with no bytes returns the backlog and leaves
\* winhandl untouched (handle_write is not called); with bytes it calls
\* handle_write with them and returns the backlog winhandl reports.
C14_EmptyWriteSkipsEngine ==
    [][\A len \in 0..1 :
          sk_handle_write(len) =>
            IF len = 0
            THEN lastRet' = eng.backlog /\ eng' = eng
            ELSE eng'.written = len /\ lastRet' = eng'.backlog]_vars

\* C14 amended: sk_write always calls handle_write once, with the bytes it
\* was given, and returns the backlog winhandl reports; with no bytes that
\* is the backlog as it was.
C14_WriteForwarded ==
    [][\A len \in 0..1 :
          sk_handle_write(len) =>
            /\ eng'.written = len
            /\ eng'.backlog = eng.backlog + len
            /\ lastRet' = eng'.backlog
            /\ hs' = hs]_vars

\* C14 witness: an empty write was made while a byte was queued for output.
C14_Witness ==
    /\ eng.written = 0
    /\ eng.backlog = 1
    /\ lastRet = 1

\* C15: sk_set_frozen is idempotent.  After any call sk_set_frozen(b), a
\* second call with the same b would keep hs->frozen, queue no callback and
\* assert nothing; no call touches inputdata or winhandl; and a freeze in
\* FREEZING or FROZEN, or an unfreeze in UNFROZEN or THAWING, changes nothing
\* at all.
C15_SetFrozenIdempotent ==
    [][\A b \in BOOLEAN :
          sk_handle_set_frozen(b) =>
            /\ hs'.inputdata = hs.inputdata
            /\ eng' = eng
            /\ LET again == set_frozen_switch(hs'.frozen, b) IN
                 /\ again.frozen = hs'.frozen
                 /\ ~again.queue
                 /\ ~again.asserts_empty
            /\ (\/ b /\ hs.frozen \in {"FREEZING", "FROZEN"}
                \/ ~b /\ hs.frozen \in {"UNFROZEN", "THAWING"}) => vars' = vars]_vars

\* C15 witness: an unfreeze of a FROZEN socket has queued the one callback,
\* so that a second unfreeze finds THAWING.
C15_Witness ==
    /\ ~Freed
    /\ pc = "idle"
    /\ hs.frozen = "THAWING"
    /\ callbacks = 1
    /\ eng.unthrottles = 0
    /\ plug.received = <<>>

\* C16: when the Plug has called sk_set_frozen(TRUE) from inside the
\* plug_receive of handle_socket_unfreeze (the state is FREEZING or FROZEN
\* as plug_receive returns) and has not closed the socket, the callback
\* ends with the state still FREEZING or FROZEN and without calling
\* handle_unthrottle.
C16_FreezeInDrainKept ==
    [][(/\ handle_socket_unfreeze_return
        /\ hs.frozen \in {"FREEZING", "FROZEN"}
        /\ ~hs.deferred_close) =>
          /\ hs'.frozen \in {"FREEZING", "FROZEN"}
          /\ eng'.unthrottles = eng.unthrottles
          /\ eng'.throttled = eng.throttled]_vars

\* C17: on a socket that has not been freed, THAWING is never held with an
\* empty inputdata, and a run of handle_socket_unfreeze never fails
\* assert(len > 0), whatever freezes, unfreezes and deliveries came before,
\* several queued callbacks and calls from inside plug_receive included.
C17_DrainFindsData ==
    /\ [](~Freed /\ hs.frozen = "THAWING" => bufchain_size(hs.inputdata) > 0)
    /\ [][handle_socket_unfreeze /\ ~Freed => ~fault'.aborted]_vars

\* C17 witness: handle_socket_unfreeze is inside plug_receive in THAWING
\* while a second callback is queued behind the running one.
C17_Witness ==
    /\ ~Freed
    /\ pc = "handle_socket_unfreeze"
    /\ hs.frozen = "THAWING"
    /\ callbacks = 1
    /\ closeCalls = 0

\* C18: whenever no function of the socket is on the stack, winhandl's read
\* thread is throttled exactly when the state is FROZEN or THAWING;
\* handle_unthrottle is called only on the step from THAWING to UNFROZEN;
\* the unthrottle calls never outnumber the INT_MAX returns; and
\* handle_gotdata, called by a winhandl that honours the throttle on a
\* socket that has not been freed, fails no assertion.
C18_ThrottleMatchesState ==
    /\ [](pc = "idle" /\ ~Freed =>
            (eng.throttled <=> hs.frozen \in {"FROZEN", "THAWING"}))
    /\ [](eng.unthrottles <= eng.maxReturns)
    /\ [][eng'.unthrottles # eng.unthrottles =>
            hs.frozen = "THAWING" /\ hs'.frozen = "UNFROZEN"]_vars
    /\ [][(/\ \E len \in -1..MaxChunk, closes \in BOOLEAN :
                handle_gotdata(len, closes)
           /\ ~Freed) => ~fault'.aborted]_vars

\* C19: data of positive length arriving in FREEZING is appended to
\* inputdata, the state becomes FROZEN, INT_MAX is returned and plug_receive
\* is not called; arriving in UNFROZEN it is passed to plug_receive, once
\* and whole, with inputdata and the state untouched by handle_gotdata, and
\* 0 is returned when plug_receive comes back.
C19_PositiveDelivery ==
    /\ [][\A len \in 1..MaxChunk :
            handle_gotdata(len, FALSE) =>
              LET data == Chunk(eng.reads + 1, len) IN
              CASE hs.frozen = "FREEZING" ->
                     /\ hs'.inputdata = hs.inputdata \o data
                     /\ hs'.frozen = "FROZEN"
                     /\ lastRet' = INT_MAX
                     /\ plug' = plug
                     /\ pc' = "idle"
                [] hs.frozen = "UNFROZEN" ->
                     /\ plug'.received = plug.received \o data
                     /\ plug'.last = <<<<"receive", len>>>>
                     /\ hs' = hs
                     /\ pc' = "handle_gotdata"
                [] OTHER -> TRUE]_vars
    /\ [][handle_gotdata_return => lastRet' = 0 /\ hs' = hs]_vars

\* C19 witness: the first read went straight to plug_receive and the second,
\* arriving in FREEZING, was buffered with INT_MAX returned.
C19_Witness ==
    /\ eng.reads = 2
    /\ eng.unthrottles = 0
    /\ plug.received # <<>>
    /\ hs.inputdata # <<>>
    /\ hs.frozen = "FROZEN"
    /\ lastRet = INT_MAX

\* C20: a read callback with len <= 0 makes exactly one plug_closing call,
\* with an error message for len < 0 and with none for len = 0; it does not
\* call plug_receive, returns 0, and leaves the state and (unless the Plug
\* closes the socket from inside plug_closing) the whole structure as they
\* were.
C20_ReadEndsOnce ==
    [][\A len \in {-1, 0}, closes \in BOOLEAN :
          handle_gotdata(len, closes) =>
            /\ plug'.last = IF len < 0
                            THEN <<<<"closing", "Read error from handle">>>>
                            ELSE <<<<"closing", "NULL">>>>
            /\ plug'.closings = plug.closings + 1
            /\ plug'.received = plug.received
            /\ lastRet' = 0
            /\ pc' = "idle"
            /\ hs'.frozen = hs.frozen
            /\ ~closes => hs' = hs]_vars

\* C20 witness: end of file was reported, with no message, to the Plug of a
\* socket that is FREEZING.
C20_Witness ==
    /\ ~Freed
    /\ plug.last = <<<<"closing", "NULL">>>>
    /\ hs.frozen = "FREEZING"
    /\ eng.recv_done
    /\ lastRet = 0

====
